---------------------------- MODULE Spec2Model ----------------------------
(***************************************************************************)
(* A model of billy's router (src/db.go): the slot-size generators, Open,  *)
(* Put, Get, Delete, Iterate and Close of `database`, over shelves whose    *)
(* behaviour (shelf.go is not part of the sources) follows spec.md 4.2.     *)
(***************************************************************************)
EXTENDS Integers, Sequences, FiniteSets, TLC

VARIABLES
    pc,        \* "gen" | "closed" | "open" | "failed" | "panic"
    config,    \* the arguments the slot-size generator is constructed with
    gen,       \* the generator closure's captured variables
    yielded,   \* the (size, done) pairs the generator has returned so far
    files,     \* the storage: slot size -> [size, slots] of that shelf's file
    shelves,   \* db.shelves
    live,      \* history: key -> what the Put that returned it stored, until Delete(key)
    cbLog,     \* the onData invocations of the last Open or Iterate, in order
    lastOp     \* history: the last operation, its arguments and its result

vars == <<pc, config, gen, yielded, files, shelves, live, cbLog, lastOp>>

-----------------------------------------------------------------------------
(* Bounds of the model. *)

\* calls made to one generator
MaxCalls == 6
\* slots the shelves of a store may grow to, taken together
MaxSlots == 3

-----------------------------------------------------------------------------
(* uint32 values.  A uint32 is kept as two 16-bit halves <<hi, lo>>, so    *)
(* that the arithmetic wraps at 2^32 exactly as Go's does.                 *)

Half == 65536

U32(n) == <<(n \div Half) % Half, n % Half>>

U32Int(u) == u[1] * Half + u[2]

U32Add(a, b) ==
    LET lo == a[2] + b[2]
        hi == a[1] + b[1] + (lo \div Half)
    IN  <<hi % Half, lo % Half>>

U32Lt(a, b) == a[1] < b[1] \/ (a[1] = b[1] /\ a[2] < b[2])

U32Leq(a, b) == a = b \/ U32Lt(a, b)

U32Max == <<Half - 1, Half - 1>>

-----------------------------------------------------------------------------
(* The slot-size generators.                                               *)

\* SlotSizePowerOfTwo(min, max): the construction.  min >= max panics.
PowerOfTwoPanics(min, max) == U32Leq(max, min)

PowerOfTwoNew(min, max) == [kind |-> "pow2", v |-> min, max |-> max]

\* the closure: ret := v; v += v; return ret, ret >= max
PowerOfTwoNextMut(g) ==
    LET ret == g.v
    IN  [size |-> ret, done |-> U32Lt(g.max, ret),
         gen |-> [g EXCEPT !.v = U32Add(g.v, g.v)]]

PowerOfTwoNext(g) ==
    LET ret == g.v
    IN  [size |-> ret, done |-> U32Leq(g.max, ret),
         gen |-> [g EXCEPT !.v = U32Add(g.v, g.v)]]

\* SlotSizeLinear(size, count): i := 1
LinearNew(size, count) == [kind |-> "linear", size |-> size, count |-> count, i |-> 1]

\* the closure: ret := size * i; i++; return uint32(ret), i >= count
LinearNext(g) ==
    LET ret == g.size * g.i
        i2  == g.i + 1
    IN  [size |-> U32(ret), done |-> i2 >= g.count,
         gen |-> [g EXCEPT !.i = i2]]

\* A caller-supplied SlotSizeFn that returns the pairs of a fixed list, and
\* repeats the last pair when called again.
ListNew(pairs) == [kind |-> "list", pairs |-> pairs, pos |-> 1]

ListNext(g) ==
    LET p == g.pairs[g.pos]
    IN  [size |-> U32(p[1]), done |-> p[2],
         gen |-> [g EXCEPT !.pos = IF g.pos < Len(g.pairs) THEN g.pos + 1 ELSE g.pos]]

\* slotSizeFn()
GenNext(g) ==
    CASE g.kind = "pow2"   -> PowerOfTwoNext(g)
      [] g.kind = "linear" -> LinearNext(g)
      [] OTHER             -> ListNext(g)

\* The generator a configuration constructs.
GenNew(c) ==
    CASE c.kind = "pow2"   -> PowerOfTwoNew(c.min, c.max)
      [] c.kind = "linear" -> LinearNew(c.size, c.count)
      [] OTHER             -> ListNew(c.pairs)

NoGen == [kind |-> "none"]

NoOp == [op |-> "none"]

-----------------------------------------------------------------------------
(* SpecGen: a generator is constructed from bounded arguments and called   *)
(* repeatedly.                                                             *)

GenU32Args == {U32(1), U32(10), U32(16), U32(100), <<32768, 0>>, U32Max}

GenLinearSizes == {1, 8, 10}

GenLinearCounts == 0 .. 4

GenConfigs ==
    {[kind |-> "pow2", min |-> a, max |-> b] : a \in GenU32Args, b \in GenU32Args}
    \cup {[kind |-> "linear", size |-> a, count |-> b] : a \in GenLinearSizes, b \in GenLinearCounts}

GenInit ==
    /\ config \in GenConfigs
    /\ IF config.kind = "pow2" /\ PowerOfTwoPanics(config.min, config.max)
       THEN pc = "panic" /\ gen = NoGen
       ELSE pc = "gen" /\ gen = GenNew(config)
    /\ yielded = <<>>
    /\ files = <<>>
    /\ shelves = <<>>
    /\ live = <<>>
    /\ cbLog = <<>>
    /\ lastOp = NoOp

GenCall ==
    /\ pc = "gen"
    /\ Len(yielded) < MaxCalls
    /\ LET r == GenNext(gen)
       IN  /\ yielded' = Append(yielded, <<r.size, r.done>>)
           /\ gen' = r.gen
    /\ UNCHANGED <<pc, config, files, shelves, live, cbLog, lastOp>>

GenNextStep == GenCall

SpecGen == GenInit /\ [][GenNextStep]_vars

-----------------------------------------------------------------------------
(* Keys: slot | uint64(index)<<28, and its decomposition.                  *)

\* the 4 bytes of the item header a slot starts with
itemHeaderSize == 4

\* the shift of the shelf index in a key: 28
shelfShift == 28

\* 0xfff
shelfMask == 4095

\* 0x0FFFFFFF, the mask Get applies to the key
getSlotMask == 268435455

\* 0x00FFFFFF, the mask Delete applies to the key
deleteSlotMask == 16777215

RECURSIVE Pow2(_)
Pow2(n) == IF n = 0 THEN 1 ELSE 2 * Pow2(n - 1)

\* a | b
RECURSIVE BitOr(_, _)
BitOr(a, b) ==
    IF a = 0 THEN b
    ELSE IF b = 0 THEN a
    ELSE (IF a % 2 = 1 \/ b % 2 = 1 THEN 1 ELSE 0) + 2 * BitOr(a \div 2, b \div 2)

\* a & b
RECURSIVE BitAnd(_, _)
BitAnd(a, b) ==
    IF a = 0 \/ b = 0 THEN 0
    ELSE (IF a % 2 = 1 /\ b % 2 = 1 THEN 1 ELSE 0) + 2 * BitAnd(a \div 2, b \div 2)

\* a << n and a >> n
Shl(a, n) == a * Pow2(n)

Shr(a, n) == a \div Pow2(n)

\* Put and wrapShelfDataFn: slot | uint64(shelfId)<<28
MakeKey(slot, shelfId) == BitOr(slot, Shl(shelfId, shelfShift))

\* Get and Delete: id := int(key>>28) & 0xfff
KeyShelf(key) == BitAnd(Shr(key, shelfShift), shelfMask)

\* Get: key & 0x0FFFFFFF
GetSlot(key) == BitAnd(key, getSlotMask)

\* Delete: key & 0x00FFFFFF
DeleteSlot(key) == BitAnd(key, deleteSlotMask)

-----------------------------------------------------------------------------
(* The shelf (spec.md 4.2).  A file is [size, slots]: its length in bytes  *)
(* and the slot headers written in it, offset -> [occ, data].  A payload   *)
(* is <<length, content>>.  A shelf is [slotSize, gaps, tail, closed]: the *)
(* free list, the append cursor and the number of close calls.             *)

NoData == <<>>

Tombstone == [occ |-> FALSE, data |-> NoData]

Occupied(data) == [occ |-> TRUE, data |-> data]

NoFile == [size |-> 0, slots |-> <<>>]

Max(a, b) == IF a >= b THEN a ELSE b

\* the file of the shelf with this slot size, empty when it does not exist yet
FileOf(fs, slotSize) == IF slotSize \in DOMAIN fs THEN fs[slotSize] ELSE NoFile

SetFile(fs, slotSize, f) == (slotSize :> f) @@ fs

\* a write of n bytes at offset off that leaves the header h there
WriteSlot(f, off, n, h) ==
    [size  |-> Max(f.size, off + n),
     slots |-> [o \in DOMAIN f.slots \cup {off} |-> IF o = off THEN h ELSE f.slots[o]]]

IsOccupied(f, off) == off \in DOMAIN f.slots /\ f.slots[off].occ

\* the offsets 0, slotSize, 2*slotSize, ... below end, ascending
Strides(end, slotSize) == [k \in 1 .. (end \div slotSize) |-> (k - 1) * slotSize]

\* the members of a sequence that satisfy Keep, in order
RECURSIVE SelectOffsets(_, _, _)
SelectOffsets(offs, f, wantOccupied) ==
    IF offs = <<>> THEN <<>>
    ELSE LET rest == SelectOffsets(Tail(offs), f, wantOccupied)
         IN  IF IsOccupied(f, Head(offs)) = wantOccupied
             THEN <<Head(offs)>> \o rest ELSE rest

\* open: scans the file in slotSize strides; an occupied slot is reported to
\* the callback, any other joins the free list; the cursor is the end of the
\* file.  A file that is no whole number of slots is an I/O error.
ShelfOpen(f, slotSize) ==
    IF f.size % slotSize # 0
    THEN [err |-> TRUE, shelf |-> <<>>, found |-> <<>>]
    ELSE LET offs == Strides(f.size, slotSize)
             occ  == SelectOffsets(offs, f, TRUE)
         IN  [err   |-> FALSE,
              shelf |-> [slotSize |-> slotSize, gaps |-> SelectOffsets(offs, f, FALSE),
                         tail |-> f.size, closed |-> 0],
              found |-> [i \in 1 .. Len(occ) |-> <<occ[i], f.slots[occ[i]].data>>]]

RemoveAt(seq, i) == SubSeq(seq, 1, i - 1) \o SubSeq(seq, i + 1, Len(seq))

\* the entries of the free list a put may pop (0: none, the shelf grows)
PopChoices(sh) == IF sh.gaps = <<>> THEN {0} ELSE 1 .. Len(sh.gaps)

\* put: pops entry g of the free list, or carves a new slot at the cursor
ShelfPut(sh, f, data, g) ==
    IF g = 0
    THEN [slot  |-> sh.tail,
          shelf |-> [sh EXCEPT !.tail = sh.tail + sh.slotSize],
          file  |-> WriteSlot(f, sh.tail, sh.slotSize, Occupied(data))]
    ELSE [slot  |-> sh.gaps[g],
          shelf |-> [sh EXCEPT !.gaps = RemoveAt(sh.gaps, g)],
          file  |-> WriteSlot(f, sh.gaps[g], itemHeaderSize + data[1], Occupied(data))]

\* get: the results a read at off may give.  An occupied slot gives its
\* payload; a read past the end of the file fails; a deleted slot (and a
\* read where no header was written) may give any data or fail.
ShelfGet(f, off, anyData) ==
    IF IsOccupied(f, off) THEN {[ok |-> TRUE, data |-> f.slots[off].data]}
    ELSE IF off + itemHeaderSize > f.size THEN {[ok |-> FALSE, data |-> NoData]}
    ELSE {[ok |-> FALSE, data |-> NoData]} \cup {[ok |-> TRUE, data |-> d] : d \in anyData}

\* delete: writes the tombstone at off and appends off to the free list
ShelfDelete(sh, f, off) ==
    [shelf |-> [sh EXCEPT !.gaps = Append(sh.gaps, off)],
     file  |-> WriteSlot(f, off, itemHeaderSize, Tombstone)]

\* iterate: the occupied slots from 0 to the cursor, ascending
ShelfIterate(sh, f) ==
    LET occ == SelectOffsets(Strides(sh.tail, sh.slotSize), f, TRUE)
    IN  [i \in 1 .. Len(occ) |-> <<occ[i], f.slots[occ[i]].data>>]

ShelfClose(sh) == [sh EXCEPT !.closed = sh.closed + 1]

-----------------------------------------------------------------------------
(* The database.                                                           *)

\* wrapShelfDataFn(shelfId, onData): the callback sees slot | shelfId<<28
wrapShelfDataFn(shelfId, found) ==
    [i \in 1 .. Len(found) |-> <<MakeKey(found[i][1], shelfId), found[i][2]>>]

\* Close, with its result: for _, shelf := range db.shelves, shelf.Close()
\* is called and a non-nil error replaces err.  fails holds the shelves
\* (counted from 1) whose Close returns an error; err is the index of the
\* shelf whose error is returned when failed, order the indexes in the
\* order Close was called on them.  One pass of the loop closes the shelf
\* after those closed so far.
ClosePass(acc, fails) ==
    LET i == Len(acc.order) + 1
    IN  [db     |-> [acc.db EXCEPT ![i] = ShelfClose(acc.db[i])],
         failed |-> acc.failed \/ i \in fails,
         err    |-> IF i \in fails THEN i - 1 ELSE acc.err,
         order  |-> Append(acc.order, i - 1)]

\* n passes of the loop, or fewer when the range is exhausted before
RECURSIVE CloseLoop(_, _, _)
CloseLoop(acc, n, fails) ==
    IF Len(acc.order) = Len(acc.db) \/ n = 0 THEN acc
    ELSE IF n = 1 THEN ClosePass(acc, fails)
    ELSE LET half == CloseLoop(acc, n \div 2, fails)
         IN  CloseLoop(half, n - n \div 2, fails)

CloseDbMut(db, fails) ==
    LET r == CloseLoop([db |-> db, failed |-> FALSE, err |-> 0, order |-> <<>>],
                       Len(db), fails)
    IN  [r EXCEPT !.err = IF fails = {} THEN 0 ELSE (CHOOSE i \in fails : \A j \in fails : i <= j) - 1]

CloseDb(db, fails) ==
    CloseLoop([db |-> db, failed |-> FALSE, err |-> 0, order |-> <<>>], Len(db), fails)

CloseShelvesMut(db) == db

\* db.Close() as Open calls it: the shelves closed, the error dropped
CloseShelves(db) == CloseDb(db, {}).db

\* openShelf(path, slotSize, onData, readonly); ioFails is the medium
\* refusing to open the file
openShelf(fs, slotSize, ioFails) ==
    IF ioFails THEN [err |-> TRUE, shelf |-> <<>>, found |-> <<>>]
    ELSE ShelfOpen(FileOf(fs, slotSize), slotSize)

OutOfOrderMut(slotSize, prevSlotSize) == FALSE

\* if slotSize <= prevSlotSize: "slot sizes must be in increasing order"
OutOfOrder(slotSize, prevSlotSize) == U32Leq(slotSize, prevSlotSize)

\* One pass of the loop of Open, "for !done": st holds the variables of Open
\* (the generator, db.shelves, prevSlotSize, prevId), the files and the
\* callbacks so far, and fin and err once Open has returned.  failAt is the
\* ordinal of the shelf whose file the medium refuses to open (0: none).
OpenPass(st) ==
    LET r        == GenNext(st.g)
        slotSize == r.size
    IN  IF OutOfOrder(slotSize, st.prevSlotSize)
        THEN [st EXCEPT !.fin = TRUE, !.err = "order"]
        ELSE
        LET o == openShelf(st.files, U32Int(slotSize), st.failAt = Len(st.db) + 1)
        IN  IF o.err
            THEN [st EXCEPT !.fin = TRUE, !.err = "io", !.db = CloseShelves(st.db)]
            ELSE
            LET db2  == Append(st.db, o.shelf)
                fs2  == SetFile(st.files, U32Int(slotSize), FileOf(st.files, U32Int(slotSize)))
                log2 == st.log \o wrapShelfDataFn(Len(st.db), o.found)
                id   == BitAnd(Len(db2), shelfMask)
            IN  IF id < st.prevId
                THEN [st EXCEPT !.fin = TRUE, !.err = "toomany",
                                !.db = db2, !.files = fs2, !.log = log2]
                ELSE [st EXCEPT !.fin = r.done, !.g = r.gen,
                                !.db = db2, !.files = fs2, !.log = log2,
                                !.prevSlotSize = slotSize, !.prevId = id]

\* n passes of the loop, or fewer when Open returns before
RECURSIVE OpenPasses(_, _)
OpenPasses(st, n) ==
    IF st.fin \/ n = 0 THEN st
    ELSE IF n = 1 THEN OpenPass(st)
    ELSE LET half == OpenPasses(st, n \div 2)
         IN  OpenPasses(half, n - n \div 2)

\* The loop of Open.  A pass that does not return appends a shelf, and the
\* pass that appends shelf 4096 returns (id = 0 < prevId = 4095), so the loop
\* makes at most shelfMask + 1 passes.
OpenLoop(g, db, fs, log, prevSlotSize, prevId, failAt) ==
    LET st == OpenPasses([fin |-> FALSE, err |-> "", g |-> g, db |-> db, files |-> fs,
                          log |-> log, prevSlotSize |-> prevSlotSize, prevId |-> prevId,
                          failAt |-> failAt], shelfMask + 1)
    IN  [err |-> IF st.fin THEN st.err ELSE "running",
         db |-> st.db, files |-> st.files, log |-> st.log]

\* Open(opts, slotSizeFn, onData) with a freshly constructed generator
OpenDb(c, fs, failAt) == OpenLoop(GenNew(c), <<>>, fs, <<>>, U32(0), 0, failAt)

\* sort.Search(n, f): i, j := 0, n; while i < j, h := (i+j)/2 and
\* i = h+1 unless f(h), else j = h.  fits[h+1] is f(h).
RECURSIVE SearchLoop(_, _, _)
SearchLoop(i, j, fits) ==
    IF i < j
    THEN LET h == (i + j) \div 2
         IN  IF ~fits[h + 1] THEN SearchLoop(h + 1, j, fits) ELSE SearchLoop(i, h, fits)
    ELSE i

\* Put: the index of the shelf, len(db.shelves) when none is found
PutIndexMut(db, data) ==
    LET n == SearchLoop(0, Len(db),
                 [i \in 1 .. Len(db) |-> data[1] + itemHeaderSize <= db[i].slotSize])
    IN  IF n = Len(db) THEN Len(db) - 1 ELSE n

PutIndexStrictMut(db, data) ==
    SearchLoop(0, Len(db),
        [i \in 1 .. Len(db) |-> data[1] + itemHeaderSize < db[i].slotSize])

PutIndex(db, data) ==
    SearchLoop(0, Len(db),
        [i \in 1 .. Len(db) |-> data[1] + itemHeaderSize <= db[i].slotSize])

-----------------------------------------------------------------------------
(* Spec: one store, opened with one of a few generators, used and closed   *)
(* and opened again.                                                       *)

Pow24 == Pow2(24)

Pow27 == Pow2(27)

Configs ==
    { [kind |-> "linear", size |-> 8, count |-> 3],
      [kind |-> "linear", size |-> Pow24, count |-> 3],
      [kind |-> "pow2", min |-> U32(Pow27), max |-> U32(2 * Pow27)],
      [kind |-> "list", pairs |-> <<<<30, FALSE>>, <<20, TRUE>>>>] }

\* the shelf of Open whose file may fail to open (0: none)
OpenFailures == 0 .. 2

Contents == {1, 2}

\* the payloads put: one that fills a slot of each shelf exactly, and one a
\* byte too long for the largest
PutLengths(db) ==
    IF db = <<>> THEN {}
    ELSE {db[i].slotSize - itemHeaderSize : i \in 1 .. Len(db)}
         \cup {db[Len(db)].slotSize - itemHeaderSize + 1}

PutData(db) == {<<n, c>> : n \in PutLengths(db), c \in Contents}

OpRec(op, ok, err, key, data, shelf, off, wasLive, slotLive) ==
    [op |-> op, ok |-> ok, err |-> err, key |-> key, data |-> data,
     shelf |-> shelf, off |-> off, wasLive |-> wasLive, slotLive |-> slotLive]

\* the slots carved so far in the shelves from index i on
RECURSIVE SlotsCarved(_, _)
SlotsCarved(db, i) ==
    IF i > Len(db) THEN 0
    ELSE db[i].tail \div db[i].slotSize + SlotsCarved(db, i + 1)

Init ==
    /\ config \in Configs
    /\ pc = "closed"
    /\ gen = NoGen
    /\ yielded = <<>>
    /\ files = <<>>
    /\ shelves = <<>>
    /\ live = <<>>
    /\ cbLog = <<>>
    /\ lastOp = OpRec("none", TRUE, "", 0, NoData, 0, 0, FALSE, FALSE)

Open(failAt) ==
    /\ pc = "closed"
    /\ LET r == OpenDb(config, files, failAt)
       IN  /\ pc' = IF r.err = "" THEN "open" ELSE "failed"
           /\ shelves' = r.db
           /\ files' = r.files
           /\ cbLog' = r.log
           /\ lastOp' = OpRec("Open", r.err = "", r.err, 0, NoData, 0, 0, FALSE, FALSE)
    /\ UNCHANGED <<config, gen, yielded, live>>

Put(data) ==
    /\ pc = "open"
    /\ LET index == PutIndex(shelves, data)
       IN  IF index = Len(shelves)
           THEN /\ lastOp' = OpRec("Put", FALSE, "no shelf found", 0, data, 0, 0, FALSE, FALSE)
                /\ UNCHANGED <<shelves, files, live>>
           ELSE LET sh == shelves[index + 1]
                IN  \E g \in PopChoices(sh) :
                      /\ g = 0 => SlotsCarved(shelves, 1) < MaxSlots
                      /\ LET r   == ShelfPut(sh, FileOf(files, sh.slotSize), data, g)
                             key == MakeKey(r.slot, index)
                         IN  /\ shelves' = [shelves EXCEPT ![index + 1] = r.shelf]
                             /\ files' = SetFile(files, sh.slotSize, r.file)
                             /\ live' = [k \in DOMAIN live \cup {key} |->
                                           IF k = key
                                           THEN [data |-> data, shelf |-> index, off |-> r.slot]
                                           ELSE live[k]]
                             /\ lastOp' = OpRec("Put", TRUE, "", key, data, index, r.slot,
                                            key \in DOMAIN live,
                                            \E k \in DOMAIN live :
                                               live[k].shelf = index /\ live[k].off = r.slot)
    /\ cbLog' = <<>>
    /\ UNCHANGED <<pc, config, gen, yielded>>

Get(key) ==
    /\ pc = "open"
    /\ LET id == KeyShelf(key)
       IN  IF id >= Len(shelves)
           THEN /\ pc' = "panic"
                /\ lastOp' = OpRec("Get", FALSE, "index out of range", key, NoData, id, 0,
                                   FALSE, FALSE)
           ELSE /\ pc' = pc
                /\ \E r \in ShelfGet(FileOf(files, shelves[id + 1].slotSize), GetSlot(key),
                                     PutData(shelves)) :
                      lastOp' = OpRec("Get", r.ok, "", key, r.data, id, GetSlot(key),
                                      FALSE, FALSE)
    /\ cbLog' = <<>>
    /\ UNCHANGED <<config, gen, yielded, files, shelves, live>>

Delete(key) ==
    /\ pc = "open"
    /\ LET id == KeyShelf(key)
       IN  IF id >= Len(shelves)
           THEN /\ pc' = "panic"
                /\ lastOp' = OpRec("Delete", FALSE, "index out of range", key, NoData, id, 0,
                                   FALSE, FALSE)
                /\ UNCHANGED <<shelves, files>>
           ELSE LET sh == shelves[id + 1]
                    r  == ShelfDelete(sh, FileOf(files, sh.slotSize), DeleteSlot(key))
                IN  /\ pc' = pc
                    /\ shelves' = [shelves EXCEPT ![id + 1] = r.shelf]
                    /\ files' = SetFile(files, sh.slotSize, r.file)
                    /\ lastOp' = OpRec("Delete", TRUE, "", key, NoData, id, DeleteSlot(key),
                                       FALSE, FALSE)
    /\ live' = [k \in DOMAIN live \ {key} |-> live[k]]
    /\ cbLog' = <<>>
    /\ UNCHANGED <<config, gen, yielded>>

\* the callbacks of Iterate over the shelves from index i on
RECURSIVE IterateFrom(_, _, _)
IterateFrom(i, db, fs) ==
    IF i > Len(db) THEN <<>>
    ELSE wrapShelfDataFn(i - 1, ShelfIterate(db[i], FileOf(fs, db[i].slotSize)))
         \o IterateFrom(i + 1, db, fs)

Iterate ==
    /\ pc = "open"
    /\ cbLog' = IterateFrom(1, shelves, files)
    /\ lastOp' = OpRec("Iterate", TRUE, "", 0, NoData, 0, 0, FALSE, FALSE)
    /\ UNCHANGED <<pc, config, gen, yielded, files, shelves, live>>

\* Limits: the slot sizes of the first and of the last shelf
Limits ==
    /\ pc = "open"
    /\ cbLog' = <<>>
    /\ lastOp' = OpRec("Limits", TRUE, "", 0,
                       <<shelves[1].slotSize, shelves[Len(shelves)].slotSize>>,
                       0, 0, FALSE, FALSE)
    /\ UNCHANGED <<pc, config, gen, yielded, files, shelves, live>>

\* the shelves whose Close may return an error: any of the first, the second
\* and the last
CloseFailures(db) == SUBSET ({1, 2, Len(db)} \cap (1 .. Len(db)))

Close(fails) ==
    /\ pc = "open"
    /\ LET r == CloseDb(shelves, fails)
       IN  /\ shelves' = r.db
           /\ lastOp' = OpRec("Close", ~r.failed, IF r.failed THEN "close" ELSE "", 0,
                              r.order, r.err, 0, FALSE, FALSE)
    /\ pc' = "closed"
    /\ cbLog' = <<>>
    /\ UNCHANGED <<config, gen, yielded, files, live>>

Next ==
    \/ \E failAt \in OpenFailures : Open(failAt)
    \/ \E data \in PutData(shelves) : Put(data)
    \/ \E key \in DOMAIN live : Get(key)
    \/ \E key \in DOMAIN live : Delete(key)
    \/ Iterate
    \/ Limits
    \/ \E fails \in CloseFailures(shelves) : Close(fails)

Spec == Init /\ [][Next]_vars

-----------------------------------------------------------------------------
(* SpecProbe: a store of three small shelves, put to with payloads that    *)
(* fill a slot and payloads that leave room in it, and asked for keys the  *)
(* store never returned.                                                   *)

ProbeConfigs == {[kind |-> "linear", size |-> 8, count |-> 4]}

\* the empty payload, and for each shelf the payloads that fill a slot
\* exactly and that are a byte too long for it
ProbeLengths(db) ==
    IF db = <<>> THEN {}
    ELSE {0} \cup {db[i].slotSize - itemHeaderSize + d : i \in 1 .. Len(db), d \in {0, 1}}

ProbeData(db) == {<<n, 1>> : n \in ProbeLengths(db)}

\* keys of a shelf index the store does not have: the first and the second
\* index after the last shelf
ProbeKeys(db) == {MakeKey(0, Len(db)), MakeKey(db[1].slotSize, Len(db) + 1)}

ProbeInit ==
    /\ config \in ProbeConfigs
    /\ pc = "closed"
    /\ gen = NoGen
    /\ yielded = <<>>
    /\ files = <<>>
    /\ shelves = <<>>
    /\ live = <<>>
    /\ cbLog = <<>>
    /\ lastOp = OpRec("none", TRUE, "", 0, NoData, 0, 0, FALSE, FALSE)

ProbeNext ==
    \/ \E failAt \in OpenFailures : Open(failAt)
    \/ \E data \in ProbeData(shelves) : Put(data)
    \/ \E key \in DOMAIN live \cup (IF pc = "open" THEN ProbeKeys(shelves) ELSE {}) : Get(key)
    \/ \E key \in DOMAIN live \cup (IF pc = "open" THEN ProbeKeys(shelves) ELSE {}) : Delete(key)
    \/ Iterate
    \/ Limits
    \/ \E fails \in CloseFailures(shelves) : Close(fails)

SpecProbe == ProbeInit /\ [][ProbeNext]_vars

-----------------------------------------------------------------------------
(* SpecMany: Open with generators of few and of very many sizes, around    *)
(* the 4096 shelves the 12 bits of the shelf index can name.               *)

\* the number of sizes the generator returns
ManyCounts == (1 .. 12) \cup (shelfMask .. shelfMask + 2)

\* n sizes 8, 16, 24, ..., the last with done
SizeList(n) == [i \in 1 .. n |-> <<2 * itemHeaderSize * i, i = n>>]

ManyConfigs == {[kind |-> "list", pairs |-> SizeList(n)] : n \in ManyCounts}

ManyInit ==
    /\ config \in ManyConfigs
    /\ pc = "closed"
    /\ gen = NoGen
    /\ yielded = <<>>
    /\ files = <<>>
    /\ shelves = <<>>
    /\ live = <<>>
    /\ cbLog = <<>>
    /\ lastOp = OpRec("none", TRUE, "", 0, NoData, 0, 0, FALSE, FALSE)

ManyNext ==
    \/ \E failAt \in OpenFailures : Open(failAt)
    \/ Limits
    \/ \E fails \in CloseFailures(shelves) : Close(fails)

SpecMany == ManyInit /\ [][ManyNext]_vars

-----------------------------------------------------------------------------
(* The claims.                                                             *)

\* the largest shelf's slot size
MaxSlotSize == shelves[Len(shelves)].slotSize

\* the callbacks logged are one per live key, each with that key's payload
LogIsLive ==
    /\ Len(cbLog) = Cardinality(DOMAIN live)
    /\ \A k \in DOMAIN live : \E i \in 1 .. Len(cbLog) : cbLog[i] = <<k, live[k].data>>
    /\ \A i \in 1 .. Len(cbLog) : cbLog[i][1] \in DOMAIN live

\* C1: a Get of a key that Put returned and Delete has not been called on
\* returns exactly the payload that Put stored.
C1_GetReturnsPut ==
    (lastOp.op = "Get" /\ lastOp.key \in DOMAIN live)
        => (lastOp.ok /\ lastOp.data = live[lastOp.key].data)

\* the files after the slot that Get(key) reads has been tombstoned
TombstonedAtGetSlot(key) ==
    LET slotSize == shelves[KeyShelf(key) + 1].slotSize
    IN  SetFile(files, slotSize,
                WriteSlot(FileOf(files, slotSize), GetSlot(key), itemHeaderSize, Tombstone))

\* C2: Delete(key) tombstones the slot that Get(key) reads, shelf
\* (key >> 28) & 0xFFF at offset key & 0x0FFFFFFF, and no other slot.
C2_DeleteSameSlotAsGet ==
    [][\A key \in DOMAIN live :
          (Delete(key) /\ pc' = "open") => files' = TombstonedAtGetSlot(key)]_vars

\* C3: the key a Put returns decodes to the shelf index and the slot offset
\* the record was stored at, and encoding those again gives the key.
C3_KeyRoundTrip ==
    (lastOp.op = "Put" /\ lastOp.ok)
        => /\ KeyShelf(lastOp.key) = lastOp.shelf
           /\ GetSlot(lastOp.key) = lastOp.off
           /\ MakeKey(GetSlot(lastOp.key), KeyShelf(lastOp.key)) = lastOp.key

\* C4: a Put never returns a key that is still live, and never writes the
\* slot of a live record (Delete being called on live keys only).
C4_NoDoubleAllocation ==
    (lastOp.op = "Put" /\ lastOp.ok) => (~lastOp.wasLive /\ ~lastOp.slotLive)

\* C5: Iterate calls back exactly once for each key that Put returned and
\* Delete was not called on since, with its payload, and for no other key.
C5_IterateVisitsLive == lastOp.op = "Iterate" => LogIsLive

\* C6: a successful Open of storage that was closed reports to the callback
\* exactly the (key, payload) pairs that were live at the close.
C6_ReopenReplaysLive == (lastOp.op = "Open" /\ lastOp.ok) => LogIsLive

BadOrderConfig == [kind |-> "list", pairs |-> <<<<30, FALSE>>, <<20, TRUE>>>>]

\* C7: Open with the generator (30,false),(20,true) fails (the medium
\* opening every file it is asked for) with the error about the order of
\* the slot sizes, and every shelf that call opened has been closed.
C7_BadOrderClosesShelves ==
    (lastOp.op = "Open" /\ config = BadOrderConfig /\ lastOp.err # "io")
        => /\ lastOp.err = "order"
           /\ \A i \in 1 .. Len(shelves) : shelves[i].closed = 1

\* C8: call i of SlotSizeLinear(step, count) returns (step * i, i >= count).
C8_LinearYields ==
    config.kind = "linear"
        => \A i \in 1 .. Len(yielded) :
              yielded[i] = <<U32(config.size * i), i >= config.count>>

PowerOfTwoExample == [kind |-> "pow2", min |-> U32(10), max |-> U32(100)]

C10_TooLargePutChangesNothing ==
    [][\A data \in PutData(shelves) :
          (Put(data) /\ data[1] > MaxSlotSize - itemHeaderSize)
              => /\ ~lastOp'.ok
                 /\ lastOp'.err = "no shelf found"
                 /\ shelves' = shelves
                 /\ files' = files
                 /\ live' = live
                 /\ pc' = pc]_vars

C10_Witness ==
    /\ lastOp.op = "Put"
    /\ lastOp.err = "no shelf found"
    /\ lastOp.data[1] > MaxSlotSize - itemHeaderSize
    /\ live # <<>>

\* the calls of the generator up to and including the first that said done
CallsToDone ==
    {i \in 1 .. Len(yielded) : \A j \in 1 .. i - 1 : ~yielded[j][2]}

\* C18: for min < max the sizes SlotSizePowerOfTwo(min, max) returns, up to
\* the one it says done with, are strictly increasing: the 32-bit doubling
\* never wraps to a smaller size or to 0 before done.
C18_PowerOfTwoIncreasing ==
    (config.kind = "pow2" /\ U32Lt(config.min, config.max))
        => \A i \in CallsToDone : i > 1 => U32Lt(yielded[i - 1][1], yielded[i][1])

SlotSizes(db) == [i \in 1 .. Len(db) |-> db[i].slotSize]

StrictlyIncreasing(sizes) ==
    \A i \in 1 .. Len(sizes) - 1 : sizes[i] < sizes[i + 1]

\* C14: a store Open returned has at least one shelf and strictly increasing
\* slot sizes, and Put, Get, Delete, Iterate and Limits leave the number, the
\* order and the slot sizes of its shelves as they were.
C14_ShelvesFixed ==
    [][ /\ pc' = "open" => (Len(shelves') >= 1 /\ StrictlyIncreasing(SlotSizes(shelves')))
        /\ (pc = "open" /\ lastOp'.op \in {"Put", "Get", "Delete", "Iterate", "Limits"})
              => SlotSizes(shelves') = SlotSizes(shelves) ]_vars

C14_Witness ==
    /\ pc = "open"
    /\ lastOp.op = "Limits"
    /\ lastOp.data = <<shelves[1].slotSize, shelves[2].slotSize>>
    /\ \E k \in DOMAIN live : live[k].shelf = 1
    /\ SlotsCarved(shelves, 1) > Cardinality(DOMAIN live)

\* C15: when opening the n-th shelf fails, Open returns that error, and when
\* Open returns the error of a shelf every shelf opened before it, n-1 of
\* them, has been closed, once.
C15_OpenFailureClosesShelves ==
    [][ \A failAt \in OpenFailures :
          Open(failAt) =>
            /\ (failAt >= 1 /\ failAt <= Len(OpenDb(config, files, 0).db))
                  => (lastOp'.err = "io" /\ Len(shelves') = failAt - 1)
            /\ lastOp'.err = "io"
                  => (pc' = "failed" /\ \A i \in 1 .. Len(shelves') : shelves'[i].closed = 1) ]_vars

C15_Witness ==
    /\ lastOp.op = "Open"
    /\ lastOp.err = "io"
    /\ Len(shelves) = 1
    /\ shelves[1].closed = 1

\* C16: Close calls the close of every shelf once, in the order of the
\* indexes, also after a close that failed, and returns no error when none
\* failed and otherwise the error of the failing shelf of highest index.
C16_CloseClosesAll ==
    [][ \A fails \in CloseFailures(shelves) :
          Close(fails) =>
            /\ lastOp'.data = [i \in 1 .. Len(shelves) |-> i - 1]
            /\ Len(shelves') = Len(shelves)
            /\ \A i \in 1 .. Len(shelves) : shelves'[i].closed = shelves[i].closed + 1
            /\ lastOp'.ok = (fails = {})
            /\ fails # {} => \A i \in fails : i - 1 <= lastOp'.shelf
            /\ fails # {} => lastOp'.shelf + 1 \in fails ]_vars

\* the first of two shelves failed to close, the second was closed after it
C16_Witness ==
    /\ lastOp.op = "Close"
    /\ ~lastOp.ok
    /\ lastOp.shelf = 0
    /\ lastOp.data = <<0, 1>>
    /\ shelves[2].closed = 1

\* C12: Get and Delete of a key whose shelf index is not below the number of
\* shelves return an error to the caller: the call does not abort, and the
\* shelves are as before.
C12_OutOfRangeReturnsError ==
    (lastOp.op \in {"Get", "Delete"} /\ KeyShelf(lastOp.key) >= Len(shelves))
        => (pc = "open" /\ ~lastOp.ok)

\* C13: a Put that succeeds stores the payload in the shelf of smallest index
\* whose slot size is at least len(data)+4, a payload that fills a slot of a
\* shelf exactly in that shelf, and changes no other shelf; it succeeds when
\* there is such a shelf.
C13_PutBestFit ==
    [][ \A data \in ProbeData(shelves) :
          Put(data) =>
            LET Fits(i) == shelves[i].slotSize >= data[1] + itemHeaderSize
                i       == lastOp'.shelf + 1
            IN  /\ lastOp'.ok = (\E j \in 1 .. Len(shelves) : Fits(j))
                /\ lastOp'.ok =>
                     /\ Fits(i)
                     /\ \A j \in 1 .. i - 1 : ~Fits(j)
                     /\ KeyShelf(lastOp'.key) = i - 1
                     /\ FileOf(files', shelves[i].slotSize).slots[lastOp'.off] = Occupied(data)
                     /\ \A j \in 1 .. Len(shelves) :
                          j # i => /\ shelves'[j] = shelves[j]
                                   /\ FileOf(files', shelves[j].slotSize)
                                        = FileOf(files, shelves[j].slotSize) ]_vars

\* a payload that leaves room in a slot of the middle shelf, and one that
\* fills a slot of it, are both stored there
C13_Witness ==
    /\ lastOp.op = "Put"
    /\ lastOp.ok
    /\ lastOp.shelf = 1
    /\ lastOp.data[1] + itemHeaderSize = shelves[2].slotSize
    /\ \E k \in DOMAIN live :
          /\ live[k].shelf = 1
          /\ live[k].data[1] + itemHeaderSize < shelves[2].slotSize
          /\ FileOf(files, shelves[2].slotSize).slots[live[k].off] = Occupied(live[k].data)

\* C11: Open succeeds when the generator returns N increasing sizes for every
\* N from 1 to 4096 and fails with "too many shelves" for more; a store it
\* returns has at most 4096 shelves, so each index fits the 12 bits of the key.
C11_ShelfCeiling ==
    (lastOp.op = "Open" /\ lastOp.err # "io")
        => LET n == Len(config.pairs)
           IN  /\ n <= shelfMask + 1 => (lastOp.ok /\ Len(shelves) = n)
               /\ n > shelfMask + 1 => lastOp.err = "toomany"
               /\ lastOp.ok => Len(shelves) - 1 <= shelfMask

\* C17: when Open fails with "too many shelves", every shelf it opened has
\* been closed.
C17_TooManyClosesShelves ==
    (lastOp.op = "Open" /\ lastOp.err = "toomany")
        => \A i \in 1 .. Len(shelves) : shelves[i].closed >= 1

=============================================================================
